---- MODULE Spec2Model ----
(***************************************************************************)
(* Content-based book recommender: app.py (the /api/recommend handler) and *)
(* simplified_recommendation_fixed.py (preprocess_data and                 *)
(* ContentBasedRecommender).                                               *)
(*                                                                         *)
(* A string is a sequence of one-character strings.  The alphabet is       *)
(* "a", "b", "A" (upper case of "a"), " " and "!" (punctuation: neither    *)
(* \w nor \s, and literal in a regular expression).                        *)
(* Row labels (the pandas index) and row positions are both 0-based, as in *)
(* the code; position k of a frame is element k+1 of the sequence.         *)
(***************************************************************************)
EXTENDS Integers, Sequences, FiniteSets

\* ------------------------------------------------------------ bounds
MaxCatalog == 4      \* largest catalog (rows of Books.csv)
MaxSample  == 2      \* largest sample_size
MaxBatch   == 3      \* largest batch_size
MaxTopN    == 2      \* largest num_recommendations

\* ------------------------------------------------------------ text
\* str.lower() on one character
LowerChar(c) == IF c = "A" THEN "a" ELSE c

\* str.lower()
Lower(s) == [k \in 1..Len(s) |-> LowerChar(s[k])]

\* the characters re.sub(r'[^\w\s]', '', x) keeps
IsWordOrSpace(c) == c # "!"

\* re.sub(r'[^\w\s]', '', s)
StripPunct(s) == SelectSeq(s, IsWordOrSpace)

\* x.lower() followed by re.sub(r'[^\w\s]', '', x)
Normalize(s) == StripPunct(Lower(s))

\* Series.str.contains(pat) / substring test (pat has no regex metacharacter)
Contains(s, pat) ==
    \E k \in 0..(Len(s) - Len(pat)) :
        \A j \in 1..Len(pat) : s[k + j] = pat[j]

\* the tokens the vectorizer's analyzer cuts a text into: maximal runs of
\* non-space characters
RECURSIVE TokensFrom(_, _)
TokensFrom(s, cur) ==
    IF s = <<>> THEN (IF cur = <<>> THEN {} ELSE {cur})
    ELSE IF Head(s) = " "
         THEN (IF cur = <<>> THEN {} ELSE {cur}) \cup TokensFrom(Tail(s), <<>>)
         ELSE TokensFrom(Tail(s), Append(cur, Head(s)))

Tokens(s) == TokensFrom(s, <<>>)

\* ------------------------------------------------------------ input pools
TitlePool  == { <<"A", "b">>, <<"a", "!", "b">>, <<"b", "b">> }
AuthorPool == { <<"A", "a">> }
QueryPool  == { <<>>, <<"A", "b">>, <<"b">>, <<"a", "a">> }

\* the raw num_recommendations of the JSON body: an integer, or text that
\* int() cannot parse
NumPool == [kind : {"int"}, val : (-1)..MaxTopN] \cup {[kind |-> "text", val |-> 0]}

\* the frames load_dataset can return: rows labelled 0..n-1 in order
RawBook(k, t, a) == [id |-> k, title |-> t, author |-> a]

Catalogs ==
    UNION { { [k \in 1..n |-> RawBook(k - 1, ts[k], as[k])] :
                ts \in [1..n -> TitlePool], as \in [1..n -> AuthorPool] } :
            n \in 1..MaxCatalog }

\* ------------------------------------------------------------ slicing
\* the number of leading elements DataFrame.head(n) and list[:n] keep:
\* n >= 0 keeps the first n, n < 0 drops the last -n
PrefixLen(len, n) ==
    IF n >= 0 THEN (IF n < len THEN n ELSE len)
    ELSE (IF len + n > 0 THEN len + n ELSE 0)

\* head() that forgets to cut
DfHead_Uncut(df, n) == df

\* DataFrame.head(n)
DfHead(df, n) == SubSeq(df, 1, PrefixLen(Len(df), n))

\* list[:n]
SliceTo(s, n) == SubSeq(s, 1, PrefixLen(Len(s), n))

\* the positions (0-based) of a frame
Positions(df) == 0..(Len(df) - 1)

\* DataFrame.iloc[k]
Iloc(df, k) == df[k + 1]

\* ------------------------------------------------------------ preprocess_data
\* books_df[books_df['Book-Title'].str.lower().str.contains(query.lower())]
MatchingRaw(df, query) ==
    SelectSeq(df, LAMBDA b : Contains(Lower(b.title), Lower(query)))

\* the loop over query_books that concatenates the matching rows
RECURSIVE QueryBooksDf(_, _)
QueryBooksDf(df, query_books) ==
    IF query_books = <<>> THEN <<>>
    ELSE MatchingRaw(df, Head(query_books)) \o QueryBooksDf(df, Tail(query_books))

\* books_df[~books_df.index.isin(query_books_df.index)], or books_df itself
OtherBooks(df, qdf) ==
    IF qdf # <<>>
    THEN SelectSeq(df, LAMBDA b : \A k \in 1..Len(qdf) : qdf[k].id # b.id)
    ELSE df

\* the results other_books.sample(sample_size, random_state=42) can have:
\* sample_size distinct rows, in the order the permutation puts them.  The
\* seed fixes the permutation for a frame of a given length; which rows it
\* picks depends on how the frame is ordered, so every outcome is allowed.
Samples(other, sample_size) ==
    { [k \in 1..sample_size |-> other[f[k]]] :
        f \in { g \in [1..sample_size -> 1..Len(other)] :
                  \A x, y \in 1..sample_size : x # y => g[x] # g[y] } }

\* len(other_books) > sample_size
IsSampled(df, sample_size, query_books) ==
    Len(OtherBooks(df, QueryBooksDf(df, query_books))) > sample_size

\* books_df after the sampling step, for one outcome of the draw
Selected(df, sample_size, query_books, sampled_books) ==
    LET qdf == QueryBooksDf(df, query_books) IN
    IF IsSampled(df, sample_size, query_books)
    THEN (IF qdf # <<>> THEN qdf \o sampled_books ELSE sampled_books)
    ELSE df

\* the column assignments: clean title and author, add combined_features
\* (Publisher is missing for every row: fillna(''))
CleanRow(b) ==
    [id |-> b.id,
     title |-> Normalize(b.title),
     author |-> Normalize(b.author),
     combined_features |-> Normalize(b.title) \o <<" ">> \o Normalize(b.author) \o <<" ">>]

CleanFrame(df) == [k \in 1..Len(df) |-> CleanRow(df[k])]

\* ------------------------------------------------------------ recommender
\* TfidfVectorizer.fit_transform: row k of the matrix is built from the
\* combined_features of the row at POSITION k.  A row is kept as the set of
\* its terms (every weight taken as 1).
FitTransform(df) == [k \in 1..Len(df) |-> Tokens(df[k].combined_features)]

\* cosine_similarity of two rows, as 4 * cos^2 (an integer for rows of at
\* most two terms, and increasing in the cosine, which is never negative
\* here); a zero row gives 0
Cosine(u, v) ==
    IF u = {} \/ v = {} THEN 0
    ELSE (Cardinality(u \cap v) * Cardinality(u \cap v) * 4)
           \div (Cardinality(u) * Cardinality(v))

\* self.books_df[self.books_df['Book-Title'].str.contains(book_title)],
\* as the positions of the matching rows
MatchingPositions(df, book_title) ==
    { k \in Positions(df) : Contains(Iloc(df, k).title, book_title) }

Min(S) == CHOOSE x \in S : \A y \in S : x <= y

\* self.tfidf_matrix[book_idx:book_idx+1]: the positions the slice holds
BookVectorRows(matrix, book_idx) ==
    IF book_idx < Len(matrix) THEN {book_idx} ELSE {}

\* a batch count that rounds down and loses the last, shorter batch
NBatches_Floor(n_books, batch_size) == n_books \div batch_size

\* n_batches = (n_books + batch_size - 1) // batch_size
NBatches(n_books, batch_size) == (n_books + batch_size - 1) \div batch_size

StartIdx(i, batch_size) == i * batch_size

EndIdx(i, batch_size, n_books) ==
    IF (i + 1) * batch_size < n_books THEN (i + 1) * batch_size ELSE n_books

\* the pairs one batch appends: for j, sim in enumerate(batch_sim), skipping
\* start_idx + j = book_idx
RECURSIVE BatchPairs(_, _, _, _, _)
BatchPairs(matrix, vec, book_idx, from, to) ==
    IF from >= to THEN <<>>
    ELSE (IF from # book_idx
          THEN << [idx |-> from, sim |-> Cosine(vec, matrix[from + 1])] >>
          ELSE <<>>)
         \o BatchPairs(matrix, vec, book_idx, from + 1, to)

\* a descending sort that puts an element after its equals (what sorting
\* ascending and reversing the list would give)
RECURSIVE InsertDesc_TiesReversed(_, _)
InsertDesc_TiesReversed(x, s) ==
    IF s = <<>> THEN <<x>>
    ELSE IF Head(s).sim >= x.sim THEN <<Head(s)>> \o InsertDesc_TiesReversed(x, Tail(s))
         ELSE <<x>> \o s

\* similarities.sort(key=lambda x: x[1], reverse=True): stable, so equal
\* scores keep the order they were appended in
RECURSIVE InsertDesc(_, _)
InsertDesc(x, s) ==
    IF s = <<>> THEN <<x>>
    ELSE IF Head(s).sim > x.sim THEN <<Head(s)>> \o InsertDesc(x, Tail(s))
         ELSE <<x>> \o s

RECURSIVE SortDesc(_)
SortDesc(s) == IF s = <<>> THEN <<>> ELSE InsertDesc(Head(s), SortDesc(Tail(s)))

NoteA == "Fallback recommendation (query not found)"
NoteB == "Fallback recommendation (no similar books found)"

\* book_info of a fallback row; row is the position it was read from
FallbackInfo(df, k, note) ==
    [title |-> Iloc(df, k).title, author |-> Iloc(df, k).author,
     similarity_score |-> 0, note |-> note, row |-> k]

\* book_info of a ranked row
RankedInfo(df, pair) ==
    [title |-> Iloc(df, pair.idx).title, author |-> Iloc(df, pair.idx).author,
     similarity_score |-> pair.sim, row |-> pair.idx]

\* the fallback when matching_books is empty
FallbackA(df, top_n) ==
    LET popular_books == DfHead(df, top_n) IN
    [k \in 1..Len(popular_books) |-> FallbackInfo(df, k - 1, NoteA)]

\* the fallback when top_similarities is empty: head(top_n) without the rows
\* labelled book_idx, then [:top_n]
FallbackB(df, book_idx, top_n) ==
    LET head == FallbackA(df, top_n)
        kept == SelectSeq(head, LAMBDA r : Iloc(df, r.row).id # book_idx)
    IN  SliceTo([k \in 1..Len(kept) |-> FallbackInfo(df, kept[k].row, NoteB)], top_n)

\* everything after the batch loop: sort, cut, fall back or build the list
RankAndBuild(df, book_idx, sims, top_n) ==
    LET top_similarities == SliceTo(SortDesc(sims), top_n) IN
    IF top_similarities = <<>>
    THEN FallbackB(df, book_idx, top_n)
    ELSE [k \in 1..Len(top_similarities) |-> RankedInfo(df, top_similarities[k])]

\* ------------------------------------------------------------ app.recommend
\* a handler without the empty-title check
TitleMissing_Unchecked(book_title) == FALSE

\* not book_title
TitleMissing(book_title) == book_title = <<>>

\* ------------------------------------------------------------ state
VARIABLES
    pc,            \* position of the request in app.recommend
    disk,          \* Books.csv, as load_dataset reads it
    catalog,       \* the frame load_dataset returned (the object handed to preprocess_data)
    sample_size,   \* the sample_size argument
    batch_size,    \* the batch_size of get_recommendations
    book_title,    \* data.get('book_title', '')
    num_raw,       \* data.get('num_recommendations', 5) before int()
    books_df,      \* the working corpus preprocess_data returned
    tfidf_matrix,  \* self.tfidf_matrix (<<>> until fit)
    match_pos,     \* position of the first matching row (-1: none)
    book_idx,      \* matching_books.index[0], a row label (-1: none)
    i,             \* the batch loop counter
    similarities,  \* the (index, similarity) pairs collected so far
    skipped,       \* batches whose ValueError was caught
    response       \* the HTTP response (status 0: none yet)

vars == << pc, disk, catalog, sample_size, batch_size, book_title, num_raw,
           books_df, tfidf_matrix, match_pos, book_idx, i, similarities,
           skipped, response >>

top_n == num_raw.val

NoResponse == [status |-> 0]

Init ==
    /\ pc = "idle"
    /\ disk \in Catalogs
    /\ catalog = <<>>
    /\ sample_size \in 1..MaxSample
    /\ batch_size \in 1..MaxBatch
    /\ book_title = <<>>
    /\ num_raw = [kind |-> "int", val |-> 0]
    /\ books_df = <<>>
    /\ tfidf_matrix = <<>>
    /\ match_pos = -1
    /\ book_idx = -1
    /\ i = 0
    /\ similarities = <<>>
    /\ skipped = {}
    /\ response = NoResponse

\* app.recommend up to the try: read the body, int(), the empty-title check
Request ==
    /\ pc = "idle"
    /\ \E t \in QueryPool, n \in NumPool :
         /\ book_title' = t
         /\ num_raw' = n
         /\ IF n.kind # "int"
            THEN /\ pc' = "done"
                 /\ response' = [status |-> 500, error |-> "ValueError"]
            ELSE IF TitleMissing(t)
            THEN /\ pc' = "done"
                 /\ response' = [status |-> 400, error |-> "Book title is required"]
            ELSE /\ pc' = "preprocess"
                 /\ UNCHANGED response
    /\ UNCHANGED << disk, catalog, sample_size, batch_size, books_df, tfidf_matrix,
                    match_pos, book_idx, i, similarities, skipped >>

\* preprocess_data(load_dataset(), sample_size, query_books=[book_title])
PreprocessData ==
    /\ pc = "preprocess"
    /\ LET df == disk
           query_books == << book_title >>
           other == OtherBooks(df, QueryBooksDf(df, query_books))
       IN  IF IsSampled(df, sample_size, query_books)
           THEN \E sampled_books \in Samples(other, sample_size) :
                  /\ books_df' = CleanFrame(Selected(df, sample_size, query_books, sampled_books))
                  /\ catalog' = df
           ELSE /\ books_df' = CleanFrame(Selected(df, sample_size, query_books, <<>>))
                /\ catalog' = books_df'
    /\ pc' = "fit"
    /\ UNCHANGED << disk, sample_size, batch_size, book_title, num_raw, tfidf_matrix,
                    match_pos, book_idx, i, similarities, skipped, response >>

\* ContentBasedRecommender(books_df).fit()
Fit ==
    /\ pc = "fit"
    /\ tfidf_matrix' = FitTransform(books_df)
    /\ pc' = "lookup"
    /\ UNCHANGED << disk, catalog, sample_size, batch_size, book_title, num_raw,
                    books_df, match_pos, book_idx, i, similarities, skipped, response >>

\* get_recommendations up to the batch loop: clean the title, find the book,
\* fall back or take the first match
Lookup ==
    /\ pc = "lookup"
    /\ LET matching == MatchingPositions(books_df, Normalize(book_title)) IN
       IF matching = {}
       THEN /\ response' = [status |-> 200, recommendations |-> FallbackA(books_df, top_n)]
            /\ pc' = "done"
            /\ UNCHANGED << match_pos, book_idx >>
       ELSE /\ match_pos' = Min(matching)
            /\ book_idx' = Iloc(books_df, Min(matching)).id
            /\ pc' = "batch"
            /\ UNCHANGED response
    /\ i' = 0
    /\ similarities' = <<>>
    /\ UNCHANGED << disk, catalog, sample_size, batch_size, book_title, num_raw,
                    books_df, tfidf_matrix, skipped >>

\* one iteration of the batch loop that completes: the pairs are appended, or
\* cosine_similarity raises ValueError (book_vector has no row) and the
\* batch is skipped
Batch ==
    /\ pc = "batch"
    /\ i < NBatches(Len(tfidf_matrix), batch_size)
    /\ LET rows == BookVectorRows(tfidf_matrix, book_idx)
           start_idx == StartIdx(i, batch_size)
           end_idx == EndIdx(i, batch_size, Len(tfidf_matrix))
       IN  IF start_idx >= Len(tfidf_matrix) \/ start_idx >= end_idx
           THEN UNCHANGED << similarities, skipped >>
           ELSE IF rows = {}
           THEN /\ skipped' = skipped \cup {i}
                /\ UNCHANGED similarities
           ELSE /\ similarities' = similarities \o
                      BatchPairs(tfidf_matrix, tfidf_matrix[book_idx + 1], book_idx,
                                 start_idx, end_idx)
                /\ UNCHANGED skipped
    /\ i' = i + 1
    /\ UNCHANGED << pc, disk, catalog, sample_size, batch_size, book_title, num_raw,
                    books_df, tfidf_matrix, match_pos, book_idx, response >>

\* one iteration of the batch loop in which the similarity computation fails
\* with an exception that is not a ValueError (MemoryError): it leaves
\* get_recommendations and app.recommend's except Exception answers 500
BatchRaises ==
    /\ pc = "batch"
    /\ i < NBatches(Len(tfidf_matrix), batch_size)
    /\ BookVectorRows(tfidf_matrix, book_idx) # {}
    /\ pc' = "done"
    /\ response' = [status |-> 500, error |-> "MemoryError", batch |-> i]
    /\ UNCHANGED << disk, catalog, sample_size, batch_size, book_title, num_raw,
                    books_df, tfidf_matrix, match_pos, book_idx, i, similarities, skipped >>

\* after the loop: sort, top_n, fallback or list; app.recommend answers 200
Rank ==
    /\ pc = "batch"
    /\ i >= NBatches(Len(tfidf_matrix), batch_size)
    /\ response' = [status |-> 200,
                    recommendations |-> RankAndBuild(books_df, book_idx, similarities, top_n)]
    /\ pc' = "done"
    /\ UNCHANGED << disk, catalog, sample_size, batch_size, book_title, num_raw,
                    books_df, tfidf_matrix, match_pos, book_idx, i, similarities, skipped >>

Next == Request \/ PreprocessData \/ Fit \/ Lookup \/ Batch \/ BatchRaises \/ Rank

Spec == Init /\ [][Next]_vars

\* ------------------------------------------------------------ properties
Done == pc = "done"

Answered == Done /\ response.status = 200

Recs == response.recommendations

\* the request reached get_recommendations and a row matched the query
Found == match_pos # -1

IsFallback(recs) == \E k \in 1..Len(recs) : "note" \in DOMAIN recs[k]

\* the result is a ranked list (no fallback record, at least one record)
Ranked == Answered /\ Found /\ Recs # <<>> /\ ~IsFallback(Recs)

\* C1: the row recommend resolved as the query match is never one of the
\* rows of the list it returns.
C1_SelfExclusion ==
    (Answered /\ Found) => \A k \in 1..Len(Recs) : Recs[k].row # match_pos

\* C2: if some catalog item's normalized title contains the forced query
\* (case-insensitively), some item of the working corpus does too.
C2_ForcedInclusion ==
    (books_df # <<>> /\ \E k \in 1..Len(disk) :
                           Contains(Normalize(disk[k].title), Lower(book_title)))
    => \E k \in 1..Len(books_df) : Contains(books_df[k].title, Lower(book_title))

\* no title of the working corpus contains the normalized query
NoMatch == MatchingPositions(books_df, Normalize(book_title)) = {}

\* C3: when no title of the working corpus contains the normalized query and
\* top_n >= 0, the answer is the first min(top_n, corpus size) items in
\* corpus order, each with score 0 and a non-empty note, and no error.
C3_FallbackA ==
    (Done /\ books_df # <<>> /\ NoMatch /\ top_n >= 0)
    => /\ response.status = 200
       /\ Len(Recs) = (IF top_n < Len(books_df) THEN top_n ELSE Len(books_df))
       /\ \A k \in 1..Len(Recs) :
            /\ Recs[k].row = k - 1
            /\ Recs[k].title = books_df[k].title
            /\ Recs[k].author = books_df[k].author
            /\ Recs[k].similarity_score = 0
            /\ "note" \in DOMAIN Recs[k]
            /\ Recs[k].note # ""

\* C3 witness: a fallback answer shorter than the corpus
C3_Witness ==
    /\ Done /\ books_df # <<>> /\ NoMatch
    /\ top_n >= 1 /\ Len(books_df) > top_n
    /\ response.status = 200 /\ Len(Recs) = top_n

\* no batch left the loop with an uncaught exception
NoUncaught == "batch" \notin DOMAIN response

\* C4: a request with top_n <= 0 is answered with the empty list, without
\* error, whether or not the query is found.
C4_NonPositiveTopN ==
    (Done /\ num_raw.kind = "int" /\ top_n <= 0 /\ ~TitleMissing(book_title) /\ NoUncaught)
    => (response.status = 200 /\ Recs = <<>>)

LeftOut == { c \in {similarities[k] : k \in 1..Len(similarities)} :
               \A k \in 1..Len(Recs) : Recs[k].row # c.idx }

\* C6: in a ranked result the scores never increase, equal scores come in
\* ascending row order, and no candidate left out beats a returned one.
C6_RankCorrect ==
    Ranked
    => /\ \A k, l \in 1..Len(Recs) :
            k < l => \/ Recs[k].similarity_score > Recs[l].similarity_score
                     \/ /\ Recs[k].similarity_score = Recs[l].similarity_score
                        /\ Recs[k].row < Recs[l].row
       /\ \A c \in LeftOut : \A k \in 1..Len(Recs) : c.sim <= Recs[k].similarity_score

\* C6 witness: two returned records tie, and a candidate was left out
C6_Witness ==
    /\ Ranked /\ Len(Recs) = 2
    /\ Recs[1].similarity_score = Recs[2].similarity_score
    /\ LeftOut # {}

\* the pairs a single pass over all rows collects
SinglePass ==
    IF BookVectorRows(tfidf_matrix, book_idx) = {} THEN <<>>
    ELSE SelectSeq([k \in 1..Len(tfidf_matrix) |->
                      [idx |-> k - 1,
                       sim |-> Cosine(tfidf_matrix[book_idx + 1], tfidf_matrix[k])]],
                   LAMBDA p : p.idx # book_idx)

\* C7: whatever the batch size, the answer is the one a single pass over all
\* rows gives.
C7_BatchInvariance ==
    (Answered /\ Found)
    => /\ similarities = SinglePass
       /\ Recs = RankAndBuild(books_df, book_idx, SinglePass, top_n)

\* C7 witness: a ranked answer computed in several batches, the last one
\* shorter than batch_size
C7_Witness ==
    /\ Ranked
    /\ batch_size > 1
    /\ Len(tfidf_matrix) > batch_size
    /\ Len(tfidf_matrix) % batch_size # 0

\* C8: preprocess_data leaves the frame it was given as it was loaded.
C8_SamplerPure == catalog # <<>> => catalog = disk

\* C9: the vector compared against all rows is the matrix row of the matched
\* item, and each score is the similarity of the matched item and the
\* returned one.
C9_RowCorrespondence ==
    Ranked
    => /\ BookVectorRows(tfidf_matrix, book_idx) = {match_pos}
       /\ \A k \in 1..Len(Recs) :
            Recs[k].similarity_score =
              Cosine(Tokens(Iloc(books_df, match_pos).combined_features),
                     Tokens(Iloc(books_df, Recs[k].row).combined_features))

\* the batches whose similarity computation failed
FailedBatches == skipped \cup (IF NoUncaught THEN {} ELSE {response.batch})

\* the pairs of the batches that did not fail
RECURSIVE SucceededPairs(_)
SucceededPairs(b) ==
    IF b >= NBatches(Len(tfidf_matrix), batch_size) THEN <<>>
    ELSE (IF b \in FailedBatches THEN <<>>
          ELSE SelectSeq([k \in 1..(EndIdx(b, batch_size, Len(tfidf_matrix))
                                      - StartIdx(b, batch_size)) |->
                            [idx |-> StartIdx(b, batch_size) + k - 1,
                             sim |-> Cosine(tfidf_matrix[match_pos + 1],
                                            tfidf_matrix[StartIdx(b, batch_size) + k])]],
                         LAMBDA p : p.idx # match_pos))
         \o SucceededPairs(b + 1)

\* C10: when batches fail, whatever the failure, the call still answers, with
\* the ranking of the candidates of the batches that succeeded.
C10_BatchFailureTolerated ==
    (Done /\ Found /\ FailedBatches # {})
    => /\ response.status = 200
       /\ Recs = RankAndBuild(books_df, book_idx, SucceededPairs(0), top_n)

====
